---------------------------- MODULE Spec2Model ----------------------------
(***************************************************************************)
(* Model of two view components of the playbooks web application:          *)
(*                                                                         *)
(*   Filters  (webapp/src/components/backstage/runs_list/filters.tsx)      *)
(*            the filter bar of the runs list: a fetch-parameters bag      *)
(*            owned by the parent, three controlled-open toggles, and a    *)
(*            search box whose callback is wrapped by debounce().          *)
(*   Playbook (unnamed/part_000) the playbook detail page: the fetch       *)
(*            effect, the follow toggle and the rendered output.           *)
(*                                                                         *)
(* The two components do not interact, so each has its own specification   *)
(* (SpecFilters, SpecPlaybook) over the variables it owns.                 *)
(***************************************************************************)
EXTENDS Integers, Sequences, FiniteSets, TLC

VARIABLES
    \* ---- Filters ----
    props,                  \* fixedTeam / fixedPlaybook / fixedFinished, number of teams
    fetchParams,            \* the FetchPlaybookRunsParams bag held by the parent
    profileSelectorToggle,  \* useState(false), filters.tsx:79
    teamSelectorToggle,     \* useState(false), filters.tsx:80
    playbookSelectorToggle, \* useState(false), filters.tsx:81
    debounced,              \* pending timer of the debounce() made by the latest render
    orphaned,               \* pending timers of debounce() instances of earlier renders
    lastInput,              \* history: last search-input event [term, age]
    burstUpdates,           \* history: setSearchTerm updates since the current burst began
    lastUpdate,             \* history: the latest setSearchTerm update and the input it followed
    last,                   \* history: the last handler that ran, its argument, the page before
    \* ---- Playbook detail page ----
    route,                  \* match.params.playbookId
    playbook,               \* useState<PlaybookWithChecklist>()
    fetchingState,          \* useState(FetchingStateType.loading)
    isFollowed,             \* useState(false)
    fetches,                \* the fetchData() invocations started so far
    runCreate,              \* playbook ids on which the caller holds RunCreate
    origin,                 \* history: which fetch supplied each piece of view state
    lastDone,               \* history: the fetch that completed last and how
    pendingDup,             \* duplicate-playbook calls in flight (the playbook id of each)
    modalOpen,              \* the archive confirmation modal is open
    emitted                 \* the outbound calls made by the step just taken, in order

varsF == <<props, fetchParams, profileSelectorToggle, teamSelectorToggle,
           playbookSelectorToggle, debounced, orphaned, lastInput, burstUpdates,
           lastUpdate, last>>

varsP == <<route, playbook, fetchingState, isFollowed, fetches, runCreate, origin, lastDone,
           pendingDup, modalOpen, emitted>>

vars == <<varsF, varsP>>

-----------------------------------------------------------------------------
(* Bounds of the model *)

\* Largest page number the parent's pagination reaches.
MaxPage == 1

\* Largest number of debounce timers pending at once.
MaxPending == 2

\* Granularity of the clock, in milliseconds.
TickMs == 100

\* burstUpdates saturates here ("this many or more").
CountCap == 2

\* Largest number of fetchData() invocations of the detail page in a behaviour.
MaxFetches == 2

\* Largest number of duplicate-playbook calls in flight at once.
MaxDuplicates == 1

-----------------------------------------------------------------------------
(* Values *)

undefined == "undefined"
None == [none |-> TRUE]
\* An optional array that is present.
Some(x) == [some |-> x]

\* filters.tsx:31
searchDebounceDelayMilliseconds == 300

\* PlaybookRunStatus (src/types/playbook_run), used at filters.tsx:109
InProgress == "InProgress"
Finished == "Finished"

UserIds == {"u1"}
TeamIds == {"t1"}
PlaybookIds == {"p1"}
Terms == {"a", "ab"}

\* Playbook ids a detail-page route can name, and the delete_at values the
\* server can answer with (0: not archived).
RouteIds == {"A", "B"}
DeleteAts == {0, 7}

Min(a, b) == IF a < b THEN a ELSE b

\* JavaScript truthiness of an optional string (Boolean(x), x || '').
Truthy(x) == x # undefined /\ x # ""


-----------------------------------------------------------------------------
(* Filters: the state after the first render *)

\* Props of Filters (filters.tsx:23-29) and the teams of the store (filters.tsx:78).
PropsChoices ==
    { [fixedTeam |-> FALSE, fixedPlaybook |-> FALSE, fixedFinished |-> FALSE, teams |-> 2],
      [fixedTeam |-> TRUE,  fixedPlaybook |-> TRUE,  fixedFinished |-> TRUE,  teams |-> 2],
      [fixedTeam |-> FALSE, fixedPlaybook |-> FALSE, fixedFinished |-> FALSE, teams |-> 1] }

\* The bag the parent passes in on mount.
InitParams ==
    [ page : 0..MaxPage,
      owner_user_id : {undefined},
      team_id : {undefined},
      playbook_id : {undefined},
      search_term : {""},
      statuses : {None, Some(<<InProgress>>), Some(<<Finished>>)},
      participant_or_follower_id : {"", "u1"},
      sort : {"create_at"} ]

\* Filters after its first render.
InitFilters ==
    /\ props \in PropsChoices
    /\ fetchParams \in InitParams
    /\ profileSelectorToggle = FALSE
    /\ teamSelectorToggle = FALSE
    /\ playbookSelectorToggle = FALSE
    /\ debounced = None
    /\ orphaned = <<>>
    /\ lastInput = None
    /\ burstUpdates = 0
    /\ lastUpdate = None
    /\ last = [op |-> "mount", arg |-> FALSE, page |-> fetchParams.page]

-----------------------------------------------------------------------------
(* Filters: what a render shows *)

\* filters.tsx:83
myRunsOnly == fetchParams.participant_or_follower_id = "me"

\* finishedChecked with the comparison off by one.
finishedCheckedOffByOne ==
    (IF fetchParams.statuses = None THEN 0 ELSE Len(fetchParams.statuses.some)) > 0

\* filters.tsx:167  (fetchParams.statuses?.length ?? 0) > 1
finishedChecked ==
    (IF fetchParams.statuses = None THEN 0 ELSE Len(fetchParams.statuses.some)) > 1

\* filters.tsx:163, 187, 204: which optional controls are rendered
finishedShown == ~props.fixedFinished
playbookSelectorShown == ~props.fixedPlaybook
teamSelectorShown == props.teams > 1 /\ ~props.fixedTeam

\* filters.tsx:56 with showCustomReset of lines 179, 196, 213
ownerResetShown == Truthy(fetchParams.owner_user_id)
playbookResetShown == playbookSelectorShown /\ Truthy(fetchParams.playbook_id)
teamResetShown == teamSelectorShown /\ Truthy(fetchParams.team_id)

-----------------------------------------------------------------------------
(* Filters: the updaters handed to setFetchParams *)

\* myRunsOnlyUpdater that leaves the participant filter when unchecked.
myRunsOnlyUpdaterKeepsOnUncheck(oldParams, checked) ==
    [oldParams EXCEPT !.participant_or_follower_id = IF checked THEN "me" ELSE @,
                      !.page = 0]

\* filters.tsx:86
myRunsOnlyUpdater(oldParams, checked) ==
    [oldParams EXCEPT !.participant_or_follower_id = IF checked THEN "me" ELSE "",
                      !.page = 0]

\* filters.tsx:92
ownerIdUpdater(oldParams, userId) ==
    [oldParams EXCEPT !.owner_user_id = userId, !.page = 0]

\* filters.tsx:98
teamIdUpdater(oldParams, teamId) ==
    [oldParams EXCEPT !.team_id = teamId, !.page = 0]

\* filters.tsx:104
playbookIdUpdater(oldParams, playbookId) ==
    [oldParams EXCEPT !.playbook_id = playbookId, !.page = 0]

\* filters.tsx:109
finishedStatuses(checked) ==
    IF checked THEN Some(<<InProgress, Finished>>) ELSE Some(<<InProgress>>)

\* filters.tsx:111
finishedRunsUpdater(oldParams, statuses) ==
    [oldParams EXCEPT !.statuses = statuses, !.page = 0]

\* searchTermUpdater without the page reset.
searchTermUpdaterKeepsPage(oldParams, term) ==
    [oldParams EXCEPT !.search_term = term]

\* searchTermUpdater built without the participant filter of the current bag.
searchTermUpdaterDropsParticipant(oldParams, term) ==
    [oldParams EXCEPT !.search_term = term, !.page = 0, !.participant_or_follower_id = ""]

\* filters.tsx:117
searchTermUpdater(oldParams, term) ==
    [oldParams EXCEPT !.search_term = term, !.page = 0]

-----------------------------------------------------------------------------
(* Filters: rendering and the debounced search callback *)

\* filters.tsx:154: every render of Filters wraps setSearchTerm in a new
\* debounce(); SearchInput calls the one of the latest render, and a timer
\* armed on an earlier one stays armed.
Rerender ==
    /\ orphaned' = IF debounced = None THEN orphaned ELSE Append(orphaned, debounced)
    /\ debounced' = None

\* setFetchParams (filters.tsx:25) with a functional updater: the parent stores
\* the new bag and renders Filters again.
setFetchParams(newParams, op, arg) ==
    /\ fetchParams' = newParams
    /\ last' = [op |-> op, arg |-> arg, page |-> fetchParams.page]

Pending == (IF debounced = None THEN 0 ELSE 1) + Len(orphaned)

RemoveAt(s, i) == [j \in 1..(Len(s) - 1) |-> IF j < i THEN s[j] ELSE s[j + 1]]


UnchangedToggles ==
    UNCHANGED <<profileSelectorToggle, teamSelectorToggle, playbookSelectorToggle>>

UnchangedSearchHistory == UNCHANGED <<lastInput, burstUpdates, lastUpdate>>

-----------------------------------------------------------------------------
(* Filters: the handlers *)

\* filters.tsx:84-88, the onChange of the "My runs only" checkbox (line 161)
setMyRunsOnly(checked) ==
    /\ setFetchParams(myRunsOnlyUpdater(fetchParams, checked), "setMyRunsOnly", checked)
    /\ Rerender
    /\ UnchangedToggles /\ UnchangedSearchHistory
    /\ UNCHANGED <<props, varsP>>

\* filters.tsx:90-94; user?.id is undefined when the selection is cleared
setOwnerId(userId) ==
    /\ setFetchParams(ownerIdUpdater(fetchParams, userId), "setOwnerId", userId)
    /\ Rerender
    /\ UnchangedToggles /\ UnchangedSearchHistory
    /\ UNCHANGED <<props, varsP>>

\* filters.tsx:96-100, the onSelectedChange of the TeamSelector (line 218)
setTeamId(teamId) ==
    /\ teamSelectorShown
    /\ setFetchParams(teamIdUpdater(fetchParams, teamId), "setTeamId", teamId)
    /\ Rerender
    /\ UnchangedToggles /\ UnchangedSearchHistory
    /\ UNCHANGED <<props, varsP>>

\* filters.tsx:102-106, the onSelectedChange of the PlaybookSelector (line 201)
setPlaybookId(playbookId) ==
    /\ playbookSelectorShown
    /\ setFetchParams(playbookIdUpdater(fetchParams, playbookId), "setPlaybookId", playbookId)
    /\ Rerender
    /\ UnchangedToggles /\ UnchangedSearchHistory
    /\ UNCHANGED <<props, varsP>>

\* filters.tsx:108-113, the onChange of the "Include finished" checkbox (line 168)
setFinishedRuns(checked) ==
    /\ finishedShown
    /\ setFetchParams(finishedRunsUpdater(fetchParams, finishedStatuses(checked)),
                      "setFinishedRuns", checked)
    /\ Rerender
    /\ UnchangedToggles /\ UnchangedSearchHistory
    /\ UNCHANGED <<props, varsP>>

\* resetOwner that opens the selector instead of flipping the toggle.
resetOwnerSetsToggle ==
    /\ ownerResetShown
    /\ setFetchParams(ownerIdUpdater(fetchParams, undefined), "resetOwner", undefined)
    /\ profileSelectorToggle' = TRUE
    /\ Rerender
    /\ UNCHANGED <<teamSelectorToggle, playbookSelectorToggle>>
    /\ UnchangedSearchHistory
    /\ UNCHANGED <<props, varsP>>

\* filters.tsx:121-124, the onClick of the owner selector's reset anchor
resetOwner ==
    /\ ownerResetShown
    /\ setFetchParams(ownerIdUpdater(fetchParams, undefined), "resetOwner", undefined)
    /\ profileSelectorToggle' = ~profileSelectorToggle
    /\ Rerender
    /\ UNCHANGED <<teamSelectorToggle, playbookSelectorToggle>>
    /\ UnchangedSearchHistory
    /\ UNCHANGED <<props, varsP>>

\* filters.tsx:126-129
resetTeam ==
    /\ teamResetShown
    /\ setFetchParams(teamIdUpdater(fetchParams, undefined), "resetTeam", undefined)
    /\ teamSelectorToggle' = ~teamSelectorToggle
    /\ Rerender
    /\ UNCHANGED <<profileSelectorToggle, playbookSelectorToggle>>
    /\ UnchangedSearchHistory
    /\ UNCHANGED <<props, varsP>>

\* filters.tsx:131-134
resetPlaybook ==
    /\ playbookResetShown
    /\ setFetchParams(playbookIdUpdater(fetchParams, undefined), "resetPlaybook", undefined)
    /\ playbookSelectorToggle' = ~playbookSelectorToggle
    /\ Rerender
    /\ UNCHANGED <<profileSelectorToggle, teamSelectorToggle>>
    /\ UnchangedSearchHistory
    /\ UNCHANGED <<props, varsP>>

\* The parent's pagination: it stores a bag with another page and renders
\* Filters again.
parentSetPage(p) ==
    /\ p # fetchParams.page
    /\ setFetchParams([fetchParams EXCEPT !.page = p], "parentSetPage", p)
    /\ Rerender
    /\ UnchangedToggles /\ UnchangedSearchHistory
    /\ UNCHANGED <<props, varsP>>


-----------------------------------------------------------------------------
(* Filters: the search box *)

\* debounce(fn, wait) of the 'debounce' package (filters.tsx:5): a call stores
\* its arguments and restarts the wait; fn runs with the stored arguments once
\* the wait has passed with no further call.
debounceCall(term) == [term |-> term, remaining |-> searchDebounceDelayMilliseconds]

\* filters.tsx:154: an input event of the SearchInput calls the onSearch prop
\* of the latest render.
onSearch(term) ==
    /\ debounced # None \/ Pending < MaxPending
    /\ debounced' = debounceCall(term)
    /\ burstUpdates' = IF lastInput = None \/ lastInput.age >= searchDebounceDelayMilliseconds
                       THEN 0 ELSE burstUpdates
    /\ lastInput' = [term |-> term, age |-> 0]
    /\ UNCHANGED <<props, fetchParams, orphaned, lastUpdate, last>>
    /\ UnchangedToggles
    /\ UNCHANGED varsP

\* filters.tsx:115-119, run by a debounce timer
setSearchTerm(term) ==
    /\ setFetchParams(searchTermUpdater(fetchParams, term), "setSearchTerm", term)
    /\ burstUpdates' = Min(burstUpdates + 1, CountCap)
    /\ lastUpdate' = [term |-> term, inputTerm |-> lastInput.term, inputAge |-> lastInput.age]
    /\ UNCHANGED lastInput
    /\ UnchangedToggles
    /\ UNCHANGED <<props, varsP>>

\* The timer of the latest render's debounce() expires.
debouncedFires ==
    /\ debounced # None
    /\ debounced.remaining = 0
    /\ setSearchTerm(debounced.term)
    /\ debounced' = None
    /\ UNCHANGED orphaned

\* The timer of an earlier render's debounce() expires.
orphanedFires ==
    \E i \in 1..Len(orphaned) :
        /\ orphaned[i].remaining = 0
        /\ setSearchTerm(orphaned[i].term)
        /\ orphaned' = IF debounced = None THEN RemoveAt(orphaned, i)
                       ELSE Append(RemoveAt(orphaned, i), debounced)
        /\ debounced' = None

Timers == {orphaned[i] : i \in 1..Len(orphaned)} \cup (IF debounced = None THEN {} ELSE {debounced})

\* Time passes, up to the next timer's expiry.
Elapse(t, d) == [t EXCEPT !.remaining = t.remaining - d]

Tick ==
    /\ \A t \in Timers : t.remaining > 0
    /\ Timers # {} \/ (lastInput # None /\ lastInput.age < searchDebounceDelayMilliseconds)
    /\ \E d \in 1..TickMs :
        /\ \A t \in Timers : d <= t.remaining
        /\ d = TickMs \/ \E t \in Timers : d = t.remaining
        /\ debounced' = IF debounced = None THEN None ELSE Elapse(debounced, d)
        /\ orphaned' = [i \in 1..Len(orphaned) |-> Elapse(orphaned[i], d)]
        /\ lastInput' = IF lastInput = None THEN None
                        ELSE [lastInput EXCEPT !.age = Min(lastInput.age + d, searchDebounceDelayMilliseconds)]
    /\ UNCHANGED <<props, fetchParams, burstUpdates, lastUpdate, last>>
    /\ UnchangedToggles
    /\ UNCHANGED varsP

-----------------------------------------------------------------------------
(* Specifications of Filters *)

\* The detail page is not part of these specifications: it stays as mounted
\* on a route without a playbookId.
PlaybookIdle ==
    /\ route = ""
    /\ playbook = None
    /\ fetchingState = "loading"
    /\ isFollowed = FALSE
    /\ fetches = <<>>
    /\ runCreate = {}
    /\ origin = [playbook |-> 0, isFollowed |-> 0]
    /\ lastDone = None
    /\ pendingDup = <<>>
    /\ modalOpen = FALSE
    /\ emitted = <<>>

\* The search box on its own: Filters mounted with fixedTeam, fixedPlaybook and
\* fixedFinished, where the search box, the "My runs only" checkbox and the owner
\* selector are the only controls, with the clock running.
InitSearch ==
    /\ InitFilters
    /\ props = [fixedTeam |-> TRUE, fixedPlaybook |-> TRUE, fixedFinished |-> TRUE, teams |-> 2]
    /\ fetchParams.statuses = Some(<<InProgress>>)
    /\ fetchParams.participant_or_follower_id = ""

NextSearch ==
    \/ \E checked \in BOOLEAN : setMyRunsOnly(checked)
    \/ \E userId \in UserIds \cup {undefined} : setOwnerId(userId)
    \/ resetOwner
    \/ \E p \in 0..MaxPage : parentSetPage(p)
    \/ \E term \in Terms : onSearch(term)
    \/ debouncedFires
    \/ orphanedFires
    \/ Tick

InitSpecSearch == InitSearch /\ PlaybookIdle

SpecSearch == InitSpecSearch /\ [][NextSearch]_vars

\* All the handlers at one instant: Filters in any configuration, and the user
\* has either typed nothing or typed a term whose quiet period has just passed,
\* so that its timer is due.
InitHandlers ==
    /\ props \in PropsChoices
    /\ fetchParams \in InitParams
    /\ profileSelectorToggle = FALSE
    /\ teamSelectorToggle = FALSE
    /\ playbookSelectorToggle = FALSE
    /\ orphaned = <<>>
    /\ burstUpdates = 0
    /\ lastUpdate = None
    /\ last = [op |-> "mount", arg |-> FALSE, page |-> fetchParams.page]
    /\ \/ debounced = None /\ lastInput = None
       \/ \E term \in Terms :
            /\ debounced = [term |-> term, remaining |-> 0]
            /\ lastInput = [term |-> term, age |-> searchDebounceDelayMilliseconds]

NextFilters ==
    \/ \E checked \in BOOLEAN : setMyRunsOnly(checked)
    \/ \E userId \in UserIds \cup {undefined} : setOwnerId(userId)
    \/ \E teamId \in TeamIds \cup {undefined} : setTeamId(teamId)
    \/ \E playbookId \in PlaybookIds \cup {undefined} : setPlaybookId(playbookId)
    \/ \E checked \in BOOLEAN : setFinishedRuns(checked)
    \/ resetOwner
    \/ resetTeam
    \/ resetPlaybook
    \/ \E p \in 0..MaxPage : parentSetPage(p)
    \/ debouncedFires
    \/ orphanedFires

InitSpecFilters == InitHandlers /\ PlaybookIdle

SpecFilters == InitSpecFilters /\ [][NextFilters]_vars


-----------------------------------------------------------------------------
(* Playbook detail page: state *)

\* part_000:62-66
FetchingStateType == [loading |-> "loading", fetched |-> "fetched", notFound |-> "notfound"]

\* What clientFetchPlaybook(playbookId) can resolve to: a snapshot of that
\* playbook, or nothing.
Snapshots(playbookId) == [id : {playbookId}, delete_at : DeleteAts] \cup {None}

\* One invocation of fetchData (part_000:151-165): its playbookId constant,
\* the await it is suspended at, and its fetchedPlaybook once resolved.
newFetch(playbookId) ==
    [playbookId |-> playbookId, pc |-> "playbook", fetchedPlaybook |-> None, outcome |-> "pending"]

\* The effect of part_000:150-168 runs fetchData; without a playbookId
\* fetchData returns at once (line 153).
startFetch(playbookId) ==
    IF playbookId = "" THEN fetches ELSE Append(fetches, newFetch(playbookId))

\* The page as mounted: the useState initial values (part_000:107-111) and the
\* effect's first run.
InitPlaybook ==
    /\ route \in RouteIds \cup {""}
    /\ playbook = None
    /\ fetchingState = FetchingStateType.loading
    /\ isFollowed = FALSE
    /\ fetches = IF route = "" THEN <<>> ELSE <<newFetch(route)>>
    /\ runCreate \in SUBSET RouteIds
    /\ origin = [playbook |-> 0, isFollowed |-> 0]
    /\ lastDone = None
    /\ pendingDup = <<>>
    /\ modalOpen = FALSE
    /\ emitted = <<>>

-----------------------------------------------------------------------------
(* Playbook detail page: what a render shows *)

\* part_000:170-172
rendersNothing == fetchingState = FetchingStateType.loading

\* rendersRedirect without the test for a missing playbook.
rendersRedirectOnNotFoundOnly ==
    /\ ~rendersNothing
    /\ fetchingState = FetchingStateType.notFound

\* part_000:174-176
rendersRedirect ==
    /\ ~rendersNothing
    /\ fetchingState = FetchingStateType.notFound \/ playbook = None

\* part_000:178-398
rendersPage == ~rendersNothing /\ ~rendersRedirect

\* part_000:226, evaluated where playbook is set
archived == playbook.delete_at # 0

\* part_000:135: the permission hook's answer for the stored playbook
hasPermissionToRunPlaybook == playbook # None /\ playbook.id \in runCreate

\* enableRunPlaybook without the test for an archived playbook.
enableRunPlaybookIgnoresArchived == hasPermissionToRunPlaybook

\* part_000:227
enableRunPlaybook == ~archived /\ hasPermissionToRunPlaybook

\* part_000:320
runButtonDisabled == ~enableRunPlaybook

\* The "Archive playbook" menu item shown whatever delete_at is.
archiveItemShownAlways == TRUE

\* part_000:274-282
archiveItemShown == ~archived

\* part_000:290-296
archivedBadgeShown == archived

-----------------------------------------------------------------------------
(* Playbook detail page: the fetch effect *)

\* A step that makes no outbound call and touches neither the duplicate calls
\* in flight nor the modal.
NoEffects ==
    /\ emitted' = <<>>
    /\ UNCHANGED <<pendingDup, modalOpen>>

\* fetchData returns; its record keeps how it ended.
finish(i, outcome) ==
    [fetches EXCEPT ![i].pc = "done", ![i].fetchedPlaybook = None, ![i].outcome = outcome]

Outcome(fetchedPlaybook) == IF fetchedPlaybook = None THEN "empty" ELSE "ok"

\* The catch block with the stored playbook cleared as well.
catchClearsPlaybook(i) ==
    /\ fetchingState' = FetchingStateType.notFound
    /\ isFollowed' = FALSE
    /\ playbook' = None
    /\ origin' = [origin EXCEPT !.isFollowed = i]
    /\ lastDone' = [fetch |-> i, outcome |-> "threw", at |-> fetches[i].pc,
                    playbook |-> None, follower |-> FALSE]
    /\ fetches' = finish(i, "threw")
    /\ UNCHANGED <<route, runCreate>>

\* part_000:160-163, the catch block
catch(i) ==
    /\ fetchingState' = FetchingStateType.notFound
    /\ isFollowed' = FALSE
    /\ origin' = [origin EXCEPT !.isFollowed = i]
    /\ lastDone' = [fetch |-> i, outcome |-> "threw", at |-> fetches[i].pc,
                    playbook |-> None, follower |-> FALSE]
    /\ fetches' = finish(i, "threw")
    /\ UNCHANGED <<playbook, route, runCreate>>

\* afterFetchPlaybook that stores the playbook before the follow status is asked.
afterFetchPlaybookStoresEarly(i, fetchedPlaybook) ==
    /\ fetches' = [fetches EXCEPT ![i].pc = "follower", ![i].fetchedPlaybook = fetchedPlaybook]
    /\ playbook' = fetchedPlaybook
    /\ origin' = [origin EXCEPT !.playbook = i]
    /\ UNCHANGED <<fetchingState, isFollowed, lastDone, route, runCreate>>

\* afterFetchPlaybook that marks the page fetched before the follow status is asked.
afterFetchPlaybookMarksFetched(i, fetchedPlaybook) ==
    /\ fetches' = [fetches EXCEPT ![i].pc = "follower", ![i].fetchedPlaybook = fetchedPlaybook]
    /\ fetchingState' = FetchingStateType.fetched
    /\ UNCHANGED <<playbook, isFollowed, origin, lastDone, route, runCreate>>

\* part_000:155: the first await resolves; fetchData goes on to line 156.
afterFetchPlaybook(i, fetchedPlaybook) ==
    /\ fetches' = [fetches EXCEPT ![i].pc = "follower", ![i].fetchedPlaybook = fetchedPlaybook]
    /\ UNCHANGED <<playbook, fetchingState, isFollowed, origin, lastDone, route, runCreate>>

clientFetchPlaybookResolves ==
    \E i \in 1..Len(fetches) :
        /\ fetches[i].pc = "playbook"
        /\ \E fetchedPlaybook \in Snapshots(fetches[i].playbookId) :
            afterFetchPlaybook(i, fetchedPlaybook)
        /\ NoEffects
        /\ UNCHANGED varsF

\* part_000:155 throws
clientFetchPlaybookThrows ==
    \E i \in 1..Len(fetches) :
        /\ fetches[i].pc = "playbook"
        /\ catch(i)
        /\ NoEffects
        /\ UNCHANGED varsF

\* afterFetchIsPlaybookFollower that drops the answer of a fetch whose playbookId
\* is no longer the route's.
afterFetchIsPlaybookFollowerIfCurrent(i, isPlaybookFollower) ==
    /\ IF fetches[i].playbookId = route
       THEN /\ playbook' = fetches[i].fetchedPlaybook
            /\ fetchingState' = FetchingStateType.fetched
            /\ isFollowed' = isPlaybookFollower
            /\ origin' = [playbook |-> i, isFollowed |-> i]
       ELSE UNCHANGED <<playbook, fetchingState, isFollowed, origin>>
    /\ lastDone' = [fetch |-> i, outcome |-> Outcome(fetches[i].fetchedPlaybook), at |-> "done",
                    playbook |-> fetches[i].fetchedPlaybook, follower |-> isPlaybookFollower]
    /\ fetches' = finish(i, Outcome(fetches[i].fetchedPlaybook))
    /\ UNCHANGED <<route, runCreate>>

\* part_000:156-159: the second await resolves and the three setters run in
\* the same continuation, with no other handler in between.
afterFetchIsPlaybookFollower(i, isPlaybookFollower) ==
    /\ playbook' = fetches[i].fetchedPlaybook
    /\ fetchingState' = FetchingStateType.fetched
    /\ isFollowed' = isPlaybookFollower
    /\ origin' = [playbook |-> i, isFollowed |-> i]
    /\ lastDone' = [fetch |-> i, outcome |-> Outcome(fetches[i].fetchedPlaybook), at |-> "done",
                    playbook |-> fetches[i].fetchedPlaybook, follower |-> isPlaybookFollower]
    /\ fetches' = finish(i, Outcome(fetches[i].fetchedPlaybook))
    /\ UNCHANGED <<route, runCreate>>

clientFetchIsPlaybookFollowerResolves ==
    \E i \in 1..Len(fetches) :
        /\ fetches[i].pc = "follower"
        /\ \E isPlaybookFollower \in BOOLEAN :
            afterFetchIsPlaybookFollower(i, isPlaybookFollower)
        /\ NoEffects
        /\ UNCHANGED varsF

\* part_000:156 throws
clientFetchIsPlaybookFollowerThrows ==
    \E i \in 1..Len(fetches) :
        /\ fetches[i].pc = "follower"
        /\ catch(i)
        /\ NoEffects
        /\ UNCHANGED varsF

\* The router hands the page another playbookId; the effect's dependency
\* (part_000:168) changes and fetchData runs again.
routeChange ==
    \E playbookId \in RouteIds \cup {""} :
        /\ playbookId # route
        /\ playbookId # "" => Len(fetches) < MaxFetches
        /\ route' = playbookId
        /\ fetches' = startFetch(playbookId)
        /\ UNCHANGED <<playbook, fetchingState, isFollowed, runCreate, origin, lastDone>>
        /\ NoEffects
        /\ UNCHANGED varsF

\* An outbound call: a client function, the router or the toast banner.
Call(fn, arg) == [fn |-> fn, arg |-> arg]

\* part_000:298-317: the auto-follow checkbox is rendered with the page and
\* disabled when the playbook is archived.
followDisabled == archived

\* changeFollowing without the test of line 125 around setIsFollowed.
changeFollowingAlwaysSets(check) ==
    /\ emitted' = IF playbook # None /\ Truthy(playbook.id)
                  THEN <<Call(IF check THEN "autoFollowPlaybook" ELSE "autoUnfollowPlaybook",
                              playbook.id)>>
                  ELSE <<>>
    /\ isFollowed' = check
    /\ origin' = [origin EXCEPT !.isFollowed = -1]
    /\ UNCHANGED <<playbook, fetchingState, fetches, runCreate, lastDone, route,
                   pendingDup, modalOpen>>
    /\ UNCHANGED varsF

\* part_000:124-133. The promise of the follow call is dropped: nothing waits
\* for its outcome.
changeFollowing(check) ==
    /\ IF playbook # None /\ Truthy(playbook.id)
       THEN /\ emitted' = <<Call(IF check THEN "autoFollowPlaybook" ELSE "autoUnfollowPlaybook",
                                 playbook.id)>>
            /\ isFollowed' = check
            /\ origin' = [origin EXCEPT !.isFollowed = -1]
       ELSE /\ emitted' = <<>>
            /\ UNCHANGED <<isFollowed, origin>>
    /\ UNCHANGED <<playbook, fetchingState, fetches, runCreate, lastDone, route,
                   pendingDup, modalOpen>>
    /\ UNCHANGED varsF

\* part_000:308-314: the checkbox, rendered with the page, passes its new
\* value to changeFollowing unless it is disabled.
followCheckboxChanged(check) ==
    /\ rendersPage
    /\ ~followDisabled
    /\ changeFollowing(check)

\* part_000:256-265, the onClick of the "Duplicate" menu item up to its await:
\* the call is made with the id of the playbook rendered.
duplicateClicked ==
    /\ rendersPage
    /\ Len(pendingDup) < MaxDuplicates
    /\ pendingDup' = Append(pendingDup, playbook.id)
    /\ emitted' = <<Call("clientDuplicatePlaybook", playbook.id)>>
    /\ UNCHANGED <<route, playbook, fetchingState, isFollowed, fetches, runCreate, origin,
                   lastDone, modalOpen>>
    /\ UNCHANGED varsF

\* part_000:259-261, the rest of the handler once the call has resolved with
\* newID; playbook.id is the one the handler was created with. The router
\* answers the navigation with a routeChange.
afterDuplicate(id, newID) ==
    emitted' = <<Call("navigateToPluginUrl", "/playbooks/" \o newID),
                 Call("addToast", "Successfully duplicated playbook"),
                 Call("telemetryEventForPlaybook", id)>>

duplicateResolves ==
    \E i \in 1..Len(pendingDup) :
        /\ \E newID \in RouteIds : afterDuplicate(pendingDup[i], newID)
        /\ pendingDup' = RemoveAt(pendingDup, i)
        /\ UNCHANGED <<route, playbook, fetchingState, isFollowed, fetches, runCreate, origin,
                       lastDone, modalOpen>>
        /\ UNCHANGED varsF

\* duplicateRejects with the follow-up steps in a finally block.
duplicateRejectsStillReports ==
    \E i \in 1..Len(pendingDup) :
        /\ emitted' = <<Call("unhandledrejection", "clientDuplicatePlaybook"),
                        Call("telemetryEventForPlaybook", pendingDup[i])>>
        /\ pendingDup' = RemoveAt(pendingDup, i)
        /\ UNCHANGED <<route, playbook, fetchingState, isFollowed, fetches, runCreate, origin,
                       lastDone, modalOpen>>
        /\ UNCHANGED varsF

\* part_000:258: the call rejects; the handler has no try/catch, so its promise
\* rejects with nothing attached to it and lines 259-261 do not run.
duplicateRejects ==
    \E i \in 1..Len(pendingDup) :
        /\ emitted' = <<Call("unhandledrejection", "clientDuplicatePlaybook")>>
        /\ pendingDup' = RemoveAt(pendingDup, i)
        /\ UNCHANGED <<route, playbook, fetchingState, isFollowed, fetches, runCreate, origin,
                       lastDone, modalOpen>>
        /\ UNCHANGED varsF

-----------------------------------------------------------------------------
(* Playbook detail page: the archive confirmation *)

\* part_000:280, the onClick of the "Archive playbook" menu item; the hook
\* shows its modal (line 396) until it is answered.
openDeletePlaybookModal ==
    /\ rendersPage
    /\ archiveItemShown
    /\ ~modalOpen
    /\ modalOpen' = TRUE
    /\ emitted' = <<>>
    /\ UNCHANGED <<route, playbook, fetchingState, isFollowed, fetches, runCreate, origin,
                   lastDone, pendingDup>>
    /\ UNCHANGED varsF

\* part_000:114-119, the callback given to useConfirmPlaybookArchiveModal,
\* reading the playbook of the render that shows the modal.
onArchiveConfirmed ==
    emitted' = IF playbook # None
               THEN <<Call("archivePlaybook", playbook.id),
                      Call("navigateToPluginUrl", "/playbooks")>>
               ELSE <<>>

\* The modal, shown with the page, is confirmed: the hook runs the callback
\* and closes the modal.
confirmArchive ==
    /\ modalOpen
    /\ rendersPage
    /\ onArchiveConfirmed
    /\ modalOpen' = FALSE
    /\ UNCHANGED <<route, playbook, fetchingState, isFollowed, fetches, runCreate, origin,
                   lastDone, pendingDup>>
    /\ UNCHANGED varsF

\* The modal is dismissed.
cancelArchive ==
    /\ modalOpen
    /\ rendersPage
    /\ modalOpen' = FALSE
    /\ emitted' = <<>>
    /\ UNCHANGED <<route, playbook, fetchingState, isFollowed, fetches, runCreate, origin,
                   lastDone, pendingDup>>
    /\ UNCHANGED varsF

-----------------------------------------------------------------------------
(* Specification of the detail page *)

\* Filters is not part of this specification: it stays as first rendered.
FiltersIdle ==
    /\ InitSearch
    /\ fetchParams.page = 0

NextPlaybook ==
    \/ clientFetchPlaybookResolves
    \/ clientFetchPlaybookThrows
    \/ clientFetchIsPlaybookFollowerResolves
    \/ clientFetchIsPlaybookFollowerThrows
    \/ routeChange
    \/ \E check \in BOOLEAN : followCheckboxChanged(check)

InitSpecPlaybook == FiltersIdle /\ InitPlaybook

SpecPlaybook == InitSpecPlaybook /\ [][NextPlaybook]_vars

\* A request of fetchData settles: it resolves or throws.
FetchSettles ==
    \/ clientFetchPlaybookResolves
    \/ clientFetchPlaybookThrows
    \/ clientFetchIsPlaybookFollowerResolves
    \/ clientFetchIsPlaybookFollowerThrows

\* The detail page where every request made by fetchData is answered: the
\* continuation of an await runs once its promise has settled.
SpecPlaybookFair == SpecPlaybook /\ WF_vars(FetchSettles)

\* The detail page with changeFollowing applied as a function as well: every
\* render creates it (line 124 precedes the early returns of lines 170-176),
\* whatever the page shows.
NextFollow ==
    \/ NextPlaybook
    \/ \E check \in BOOLEAN : changeFollowing(check)

SpecFollow == InitSpecPlaybook /\ [][NextFollow]_vars

\* The menu entries share nothing with one another but the stored playbook:
\* each is taken together with the fetch effect and the checkbox.
NextDuplicate ==
    \/ NextPlaybook
    \/ duplicateClicked
    \/ duplicateResolves
    \/ duplicateRejects

SpecDuplicate == InitSpecPlaybook /\ [][NextDuplicate]_vars

NextArchive ==
    \/ NextPlaybook
    \/ openDeletePlaybookModal
    \/ confirmArchive
    \/ cancelArchive

SpecArchive == InitSpecPlaybook /\ [][NextArchive]_vars

-----------------------------------------------------------------------------
(* Claims about Filters *)

FilterMutations ==
    {"setMyRunsOnly", "setOwnerId", "setTeamId", "setPlaybookId", "setFinishedRuns",
     "setSearchTerm", "resetOwner", "resetTeam", "resetPlaybook"}

\* C1: after any filter mutation (the six setters and the three reset handlers)
\* fetchParams.page is 0, whatever the page was before.
C1_MutationResetsPage ==
    last.op \in FilterMutations => fetchParams.page = 0

\* A mutation has run on a bag whose page was not 0.
C1_Witness ==
    /\ last.op \in FilterMutations
    /\ last.page # 0
    /\ fetchParams.page = 0

\* C2: after "Include finished" is toggled, statuses is exactly
\* [InProgress, Finished] when checked and exactly [InProgress] when unchecked,
\* and the checkbox is rendered checked iff it was toggled to checked.
C2_FinishedRuns ==
    last.op = "setFinishedRuns" =>
        /\ fetchParams.statuses = IF last.arg THEN Some(<<InProgress, Finished>>)
                                  ELSE Some(<<InProgress>>)
        /\ finishedChecked <=> last.arg

\* The checkbox was unchecked after having been checked.
C2_Witness ==
    /\ last.op = "setFinishedRuns"
    /\ ~last.arg
    /\ fetchParams.statuses = Some(<<InProgress>>)
    /\ ~finishedChecked

\* C3: after "My runs only" is toggled, participant_or_follower_id is 'me' when
\* checked and the empty string when unchecked, and the checkbox is rendered
\* checked iff participant_or_follower_id is 'me'.
C3_MyRunsOnly ==
    /\ last.op = "setMyRunsOnly" =>
        /\ fetchParams.participant_or_follower_id = IF last.arg THEN "me" ELSE ""
        /\ myRunsOnly <=> last.arg
    /\ myRunsOnly <=> fetchParams.participant_or_follower_id = "me"

\* The checkbox was unchecked, clearing the filter.
C3_Witness ==
    /\ last.op = "setMyRunsOnly"
    /\ ~last.arg
    /\ fetchParams.participant_or_follower_id = ""
    /\ ~myRunsOnly

\* C4: a click of a selector's reset control clears that selector's id in
\* fetchParams and flips that selector's controlled-open toggle, leaving the
\* other two toggles as they were.
C4_ResetFlipsToggle ==
    [][ /\ resetOwner =>
            /\ fetchParams'.owner_user_id = undefined
            /\ profileSelectorToggle' = ~profileSelectorToggle
            /\ UNCHANGED <<teamSelectorToggle, playbookSelectorToggle>>
        /\ resetTeam =>
            /\ fetchParams'.team_id = undefined
            /\ teamSelectorToggle' = ~teamSelectorToggle
            /\ UNCHANGED <<profileSelectorToggle, playbookSelectorToggle>>
        /\ resetPlaybook =>
            /\ fetchParams'.playbook_id = undefined
            /\ playbookSelectorToggle' = ~playbookSelectorToggle
            /\ UNCHANGED <<profileSelectorToggle, teamSelectorToggle>>
      ]_vars

\* The owner's reset was clicked while its toggle was up (a second click), with
\* the other two toggles up.
C4_Witness ==
    /\ last.op = "resetOwner"
    /\ fetchParams.owner_user_id = undefined
    /\ ~profileSelectorToggle
    /\ teamSelectorToggle
    /\ playbookSelectorToggle

\* The fields of the bag other than f and page are the same before and after.
OnlyChanges(f) ==
    /\ DOMAIN fetchParams' = DOMAIN fetchParams
    /\ \A g \in DOMAIN fetchParams \ {f, "page"} : fetchParams'[g] = fetchParams[g]

\* C9: every filter change stores a bag that differs from the bag current at
\* that moment in the changed field and page only; so a search update applied
\* after its delay keeps the checkbox and selector changes made meanwhile.
C9_WholeObjectReplacement ==
    [][ /\ (\E c \in BOOLEAN : setMyRunsOnly(c)) => OnlyChanges("participant_or_follower_id")
        /\ (\E u \in UserIds \cup {undefined} : setOwnerId(u)) \/ resetOwner
              => OnlyChanges("owner_user_id")
        /\ (\E t \in TeamIds \cup {undefined} : setTeamId(t)) \/ resetTeam
              => OnlyChanges("team_id")
        /\ (\E b \in PlaybookIds \cup {undefined} : setPlaybookId(b)) \/ resetPlaybook
              => OnlyChanges("playbook_id")
        /\ (\E c \in BOOLEAN : setFinishedRuns(c)) => OnlyChanges("statuses")
        /\ debouncedFires \/ orphanedFires => OnlyChanges("search_term")
      ]_vars

\* A search update was applied after the checkboxes and the owner selector were
\* changed while it was pending, and those changes are still there.
C9_Witness ==
    /\ last.op = "setSearchTerm"
    /\ fetchParams.search_term = "ab"
    /\ myRunsOnly
    /\ finishedChecked
    /\ fetchParams.owner_user_id = "u1"

\* C7: within a burst of search inputs less than the delay apart at most one
\* setSearchTerm update is made, made only once the delay has passed since the
\* last input, and carrying the last input's term.
C7_DebounceCoalesces ==
    /\ burstUpdates <= 1
    /\ lastUpdate # None =>
        /\ lastUpdate.inputAge >= searchDebounceDelayMilliseconds
        /\ lastUpdate.term = lastUpdate.inputTerm


-----------------------------------------------------------------------------
(* Claims about the detail page *)

C6_RunEnabled ==
    rendersPage =>
        (~runButtonDisabled <=> (playbook.delete_at = 0 /\ playbook.id \in runCreate))

\* An archived playbook on which the caller holds RunCreate: the button is disabled.
C6_Witness ==
    /\ rendersPage
    /\ playbook.delete_at # 0
    /\ playbook.id \in runCreate
    /\ runButtonDisabled

\* C8: the fetch that completed last, whatever the route is by then and
\* whichever fetch was started first, determines the page: its playbook, the
\* fetching state and its follow status (until the user changes the latter).
C8_LastCompletionWins ==
    lastDone # None =>
        IF lastDone.outcome = "threw"
        THEN fetchingState = FetchingStateType.notFound /\ ~isFollowed
        ELSE /\ playbook = lastDone.playbook
             /\ fetchingState = FetchingStateType.fetched
             /\ origin.isFollowed = -1 \/ isFollowed = lastDone.follower

\* The route went from A to B, B's fetch completed and was rendered, and then
\* A's late answer replaced it.
C8_Witness ==
    /\ route = "B"
    /\ Len(fetches) = 2
    /\ fetches[1].playbookId = "A"
    /\ fetches[2].playbookId = "B"
    /\ fetches[2].outcome = "ok"
    /\ lastDone # None
    /\ lastDone.fetch = 1
    /\ lastDone.outcome = "ok"
    /\ playbook # None
    /\ playbook.id = "A"
    /\ rendersPage

\* C10: while the state is 'fetched', the stored playbook, the 'fetched' state
\* and the follow status (unless the user changed it since) were all set by
\* one and the same fetch, and the playbook is the one that fetch asked for.
C10_OneFetchReflected ==
    fetchingState = FetchingStateType.fetched =>
        /\ lastDone # None
        /\ origin.playbook = lastDone.fetch
        /\ origin.isFollowed \in {lastDone.fetch, -1}
        /\ playbook # None => playbook.id = fetches[lastDone.fetch].playbookId

\* A second fetch completed successfully after a first one had.
C10_Witness ==
    /\ fetchingState = FetchingStateType.fetched
    /\ Len(fetches) = 2
    /\ fetches[1].outcome = "ok"
    /\ lastDone # None
    /\ lastDone.fetch = 2
    /\ origin = [playbook |-> 2, isFollowed |-> 2]
    /\ playbook # None


\* C11: with a playbookId the page asks for the playbook and then for the
\* follow status; it renders nothing while 'loading'; it leaves 'loading' only
\* when a run of fetchData has ended (the follow status resolved, or a request
\* threw), it does leave it once the requests have settled, and it never
\* returns to 'loading'.
C11_LoadingUntilSettled ==
    /\ [](fetchingState = FetchingStateType.loading =>
            rendersNothing /\ ~rendersRedirect /\ ~rendersPage)
    /\ [](fetchingState # FetchingStateType.loading =>
            /\ lastDone # None
            /\ lastDone.at = "done" \/ lastDone.outcome = "threw")
    /\ [][fetchingState # FetchingStateType.loading =>
            fetchingState' # FetchingStateType.loading]_vars
    /\ [](fetches # <<>> => <>(fetchingState # FetchingStateType.loading))

\* The fetch started on mount resolved both requests and the page left 'loading'.
C11_Witness ==
    /\ Len(fetches) = 1
    /\ fetches[1].playbookId = route
    /\ fetches[1].outcome = "ok"
    /\ lastDone # None
    /\ lastDone.at = "done"
    /\ fetchingState = FetchingStateType.fetched


\* The calls made by the step just taken, by name.
Emitted(fn) == \E k \in 1..Len(emitted) : emitted[k].fn = fn

\* C12: when the duplicate-playbook call fails, the failure is not caught and
\* no follow-up step happens (no navigation, no toast, no telemetry event),
\* and the playbook, the fetching state and the follow status stay as they were.
C12_DuplicateFailureUnguarded ==
    /\ [](Emitted("unhandledrejection") =>
            emitted = <<Call("unhandledrejection", "clientDuplicatePlaybook")>>)
    /\ [][duplicateRejects =>
            /\ Emitted("unhandledrejection")'
            /\ ~Emitted("navigateToPluginUrl")'
            /\ ~Emitted("addToast")'
            /\ ~Emitted("telemetryEventForPlaybook")'
            /\ UNCHANGED <<playbook, fetchingState, isFollowed, route>>]_vars

\* A duplicate call has just failed on a rendered page.
C12_Witness ==
    /\ Emitted("unhandledrejection")
    /\ rendersPage
    /\ pendingDup = <<>>


\* C13: changeFollowing(check) with a playbook loaded makes exactly one remote
\* call, autoFollowPlaybook for check = TRUE and autoUnfollowPlaybook for
\* check = FALSE, on that playbook's id, and sets isFollowed to check in the
\* same step, whatever becomes of the call; with no playbook (or no id) it
\* makes no call and leaves isFollowed as it was.
C13_ChangeFollowing ==
    [][\A check \in BOOLEAN :
        changeFollowing(check) =>
            IF playbook # None /\ Truthy(playbook.id)
            THEN /\ Len(emitted') = 1
                 /\ emitted'[1].fn = (IF check THEN "autoFollowPlaybook"
                                               ELSE "autoUnfollowPlaybook")
                 /\ emitted'[1].arg = playbook.id
                 /\ isFollowed' = check
                 /\ UNCHANGED <<playbook, fetchingState, fetches>>
            ELSE /\ emitted' = <<>>
                 /\ isFollowed' = isFollowed]_vars

\* The checkbox of a loaded playbook has just been ticked.
C13_Witness ==
    /\ playbook # None
    /\ emitted = <<Call("autoFollowPlaybook", playbook.id)>>
    /\ isFollowed

\* A fetch of the detail page throws (either request).
FetchThrows == clientFetchPlaybookThrows \/ clientFetchIsPlaybookFollowerThrows

\* C14: when a fetch throws, fetchingState becomes notFound, isFollowed
\* becomes FALSE and the stored playbook stays what it was (one stored by an
\* earlier fetch is not cleared); the redirect is rendered although a
\* playbook may still be stored.
C14_ThrowKeepsPlaybook ==
    /\ [][FetchThrows =>
            /\ fetchingState' = FetchingStateType.notFound
            /\ isFollowed' = FALSE
            /\ playbook' = playbook
            /\ rendersRedirect'
            /\ ~rendersPage']_vars
    /\ [](fetchingState = FetchingStateType.notFound => rendersRedirect /\ ~isFollowed)

\* A fetch has thrown after an earlier one stored a playbook.
C14_Witness ==
    /\ lastDone # None
    /\ lastDone.outcome = "threw"
    /\ playbook # None
    /\ fetchingState = FetchingStateType.notFound
    /\ rendersRedirect

\* C15: on the rendered page an archived playbook has no "Archive playbook"
\* item, a disabled auto-follow checkbox, a disabled run button and the
\* archived badge, and no step taken from such a page makes a follow or
\* unfollow call; a playbook that is not archived has the item and no badge;
\* so exactly one of badge and item is shown. archivePlaybook is called only
\* by confirming the open modal, with the id of the playbook stored at that
\* moment, and is followed by the navigation to the playbooks list.
C15_ArchivedOffersNothing ==
    /\ [](rendersPage =>
            /\ archived => /\ ~archiveItemShown
                           /\ followDisabled
                           /\ runButtonDisabled
                           /\ archivedBadgeShown
            /\ ~archived => archiveItemShown /\ ~archivedBadgeShown
            /\ archivedBadgeShown # archiveItemShown)
    /\ [](Emitted("archivePlaybook") =>
            /\ playbook # None
            /\ emitted = <<Call("archivePlaybook", playbook.id),
                           Call("navigateToPluginUrl", "/playbooks")>>)
    /\ [][Emitted("archivePlaybook")' => modalOpen /\ ~modalOpen' /\ rendersPage]_vars
    /\ [][rendersPage /\ archived =>
            /\ ~Emitted("autoFollowPlaybook")'
            /\ ~Emitted("autoUnfollowPlaybook")'
            /\ ~modalOpen => ~modalOpen']_vars

\* The page of an archived playbook the user may run, were it not archived.
C15_Witness ==
    /\ rendersPage
    /\ archived
    /\ playbook.id \in runCreate
    /\ archivedBadgeShown
    /\ ~archiveItemShown

=============================================================================
